---------------------------- MODULE Spec2Model ----------------------------
(***************************************************************************)
(* Model of the frame scheduling and detection pipeline of the WebRTC VLM  *)
(* detection demo: the useObjectDetection hook with its detection worker   *)
(* and the /api/detect server path, the FrameProcessor queue of the        *)
(* technical report, the letterbox encoder (preprocessImage) and the       *)
(* decoder (processOutput with nms).                                       *)
(*                                                                         *)
(* Numbers the code holds as floats are modelled as exact rationals        *)
(* <<numerator, denominator>>; floating-point rounding is not modelled.    *)
(***************************************************************************)
EXTENDS Integers, Sequences, FiniteSets, TLC

VARIABLES
    \* FrameProcessor (technical report, "Frame Management & Backpressure")
    maxQueueSize,   \* this.maxQueueSize
    frameQueue,     \* this.frameQueue
    admitted,       \* history: every frame passed to processFrame, in order
    returned,       \* what the last processFrame call returned (<<>> before any)
    \* letterbox codec: one point carried through the encoder and the decoder
    lbFrame,        \* <<width, height>> of the frame given to preprocessImage
    lbPoint,        \* the normalized source point, <<x, y>> of rationals
    lbTensor,       \* where the encoder draws that point in the tensor
    lbDecoded,      \* the decoder's result for it: [xmin, ymin, xmax, ymax]
    lbPc,           \* "idle", "encoded", "decoded"
    \* detection decoder: one pass of processOutput (or of the mock fallback)
    decFrame,       \* <<originalWidth, originalHeight>>
    decBackend,     \* "model": yoloSession ran; "stub": no session, mock path
    rawOutput,      \* the output tensor, one record per anchor
    boxes,          \* processOutput: candidate boxes [x1, y1, x2, y2]
    scores,         \* processOutput: candidate scores (hundredths)
    classIds,       \* processOutput: candidate class ids
    nmsOrder,       \* nms: order
    nmsIndices,     \* nms: indices
    decDetections,  \* the detections posted for the frame
    decPc,          \* "start", "nms", "done"
    \* useObjectDetection hook
    mode,           \* the mode prop: "wasm" or "server"
    isProcessing,   \* React state isProcessing
    detections,     \* React state detections: the published detections
    workerRef,      \* workerRef.current: a worker id, 0 for null
    streamRef,      \* streamRef.current is non-null
    intervalRef,    \* intervalRef.current: the id of an interval, 0 for null
    calls,          \* the startDetection calls that got past the null check, each
                    \* with the processFrame closure it captured
    frames,         \* every frame a tick dispatched, in dispatch order
    replyQueue,     \* worker replies posted and not yet handled by onmessage
    workersCreated, \* number of new Worker(...) calls so far
    \* the detection worker created last
    workerScript,   \* which worker script is served: "detectionWorker" or "yoloWorker"
    wModel,         \* the worker's model / yoloSession is non-null
    wInitialized,   \* detectionWorker.js: isInitialized
    wBoot,          \* detectionWorker.js: the load started at worker load is pending
    wHung,          \* the worker is inside a loop that does not return
    \* history
    published,      \* every setDetections call made for a frame's result
    phase,          \* "Idle", "Streaming" after startDetection, "Stopped" after stopDetection
    \* useMetrics hook
    isRunning,      \* React state isRunning
    frameCountRef,  \* frameCountRef.current
    latencyMeasurements, \* latencyMeasurements.current: the latency buffer
    metricsIntervalRef,  \* intervalRef.current of useMetrics is non-null
    metrics,        \* React state metrics: latency median and p95, framesProcessed
    feed,           \* who drives recordFrameProcessed: "calls" (any caller, any
                    \* value, few calls) or "burst" (the mock interval, many ticks)
    sessions,       \* history: startBenchmark calls that started a benchmark
    recordCalls,    \* history: number of recordFrameProcessed calls
    samples,        \* history: every sample pushed since the last startBenchmark
    pushes,         \* history: number of samples ever pushed
    decoded,        \* history: results the detection hook published since the
                    \* last startBenchmark
    latencyFresh,   \* history: the buffer is as the last updateMetrics read it
    \* the page (Index.tsx) and the useWebRTC hook
    isRecording,    \* React state isRecording of the page
    localStream,    \* React state localStream: a stream id, 0 for null
    isConnected,    \* React state isConnected
    peerConnectionRef, \* peerConnectionRef.current: a connection id, 0 for null
    dataChannelRef, \* dataChannelRef.current: the id of its connection, 0 for null
    peers,          \* every RTCPeerConnection created, with its data channel:
                    \* open or closed, and which call closed it
    timers,         \* simulated-connection timeouts set and not yet fired
    connects        \* every connect() call, with where it stands

queueVars == <<maxQueueSize, frameQueue, admitted, returned>>
lbVars == <<lbFrame, lbPoint, lbTensor, lbDecoded, lbPc>>

decVars == <<decFrame, decBackend, rawOutput, boxes, scores, classIds,
             nmsOrder, nmsIndices, decDetections, decPc>>

hookRefs == <<workerRef, streamRef, intervalRef>>
workerVars == <<workerScript, wModel, wInitialized, wBoot, wHung>>
hookVars == <<mode, isProcessing, detections, hookRefs, calls, frames, replyQueue,
              workersCreated, workerVars, published, phase>>

metricsRefs == <<frameCountRef, latencyMeasurements, metricsIntervalRef>>
metricsHistory == <<sessions, recordCalls, samples, pushes, decoded, latencyFresh>>
metricsVars == <<isRunning, metricsRefs, metrics, feed, metricsHistory>>

webrtcRefs == <<peerConnectionRef, dataChannelRef>>
sessionVars == <<isRecording, localStream, isConnected, webrtcRefs, peers, timers,
                 connects>>

vars == <<queueVars, lbVars, decVars, hookVars, metricsVars, sessionVars>>

\* what the operations of one component leave alone
notQueueVars == <<lbVars, decVars, hookVars, metricsVars, sessionVars>>
notLbVars == <<queueVars, decVars, hookVars, metricsVars, sessionVars>>
notDecVars == <<queueVars, lbVars, hookVars, metricsVars, sessionVars>>
notHookVars == <<queueVars, lbVars, decVars, metricsVars, sessionVars>>
notMetricsVars == <<queueVars, lbVars, decVars, hookVars, sessionVars>>
notSessionVars == <<queueVars, lbVars, decVars>>

-----------------------------------------------------------------------------
(* Bounds of the model *)

\* largest queue capacity explored
MaxCapacity == 3
\* number of processFrame calls explored
MaxAdmitted == 5
\* distinct frame payloads
FramePayloads == 2
\* frame widths and heights explored by the letterbox round trip: 1..MaxDim
MaxDim == 8
\* normalized points explored: multiples of 1/PointGrid in [0,1]
PointGrid == 4
\* anchors in a raw output tensor (8400 in YOLOv8n)
MaxAnchors == 3
\* iterations of the nms loop explored (the loop need not terminate)
MaxNmsSteps == 6
\* values of Math.random() explored: multiples of 1/RandomGrid in [0,1)
RandomGrid == 2
\* startDetection calls with a stream explored
MaxStarts == 2
\* frames dispatched by ticks explored
MaxFrames == 2
\* workers created (the first at mount, one more at each return to wasm mode)
MaxWorkers == 2
\* recordFrameProcessed calls explored when any caller passes any value
MaxRecords == 5
\* samples pushed beyond the capacity of the latency buffer in a burst
MaxOverflow == 3
\* startBenchmark calls that start a benchmark
MaxSessions == 1
\* results of the detection hook published next to the metrics
MaxDecoded == 1

-----------------------------------------------------------------------------
(* Helpers *)

Max(a, b) == IF a >= b THEN a ELSE b
Min(a, b) == IF a <= b THEN a ELSE b

\* the last n elements of s (all of s when it is shorter)
LastN(s, n) == SubSeq(s, Max(1, Len(s) - n + 1), Len(s))

\* TRUE iff the sequence s has no repeated element
NoDup(s) == \A i, j \in 1..Len(s) : i # j => s[i] # s[j]

RECURSIVE GCD(_, _)
GCD(a, b) == IF b = 0 THEN a ELSE GCD(b, a % b)

Abs(a) == IF a < 0 THEN -a ELSE a

\* the rational n/d (d # 0) in lowest terms with a positive denominator
Rat(n, d) ==
    LET g == GCD(Abs(n), Abs(d))
        sgn == IF d < 0 THEN -1 ELSE 1
    IN  <<sgn * (n \div g), sgn * (d \div g)>>

RatInt(n) == <<n, 1>>
RatAdd(a, b) == Rat(a[1] * b[2] + b[1] * a[2], a[2] * b[2])
RatSub(a, b) == Rat(a[1] * b[2] - b[1] * a[2], a[2] * b[2])
RatMul(a, b) == Rat(a[1] * b[1], a[2] * b[2])
RatDiv(a, b) == Rat(a[1] * b[2], a[2] * b[1])
RatLeq(a, b) == a[1] * b[2] <= b[1] * a[2]
RatLt(a, b) == a[1] * b[2] < b[1] * a[2]
RatAbs(a) == <<Abs(a[1]), a[2]>>
\* Math.min, Math.max
RatMin(a, b) == IF RatLeq(a, b) THEN a ELSE b
RatMax(a, b) == IF RatLeq(b, a) THEN a ELSE b
\* Math.floor
RatFloor(a) == a[1] \div a[2]
\* Math.round: the nearest integer, halves rounded up
RatRound(a) == (2 * a[1] + a[2]) \div (2 * a[2])

-----------------------------------------------------------------------------
(* Tensor codec: preprocessImage (encoder) and the unletterbox step of
   processOutput (decoder) *)

\* preprocessImage(imgData, 640)
InputSize == 640

\* mutant: the padding is the whole free margin instead of half of it
preprocessImage_PadNotHalved(width, height, inputSize) ==
    LET scale == RatMin(Rat(inputSize, width), Rat(inputSize, height))
        nw == RatRound(RatMul(RatInt(width), scale))
        nh == RatRound(RatMul(RatInt(height), scale))
    IN  [scale |-> scale,
         nw |-> nw,
         nh |-> nh,
         dx |-> inputSize - nw,
         dy |-> inputSize - nh,
         originalWidth |-> width, originalHeight |-> height]

\* preprocessImage: the letterbox parameters (the pixel conversion is left out)
preprocessImage(width, height, inputSize) ==
    LET scale == RatMin(Rat(inputSize, width), Rat(inputSize, height))
        nw == RatRound(RatMul(RatInt(width), scale))
        nh == RatRound(RatMul(RatInt(height), scale))
    IN  [scale |-> scale,
         nw |-> nw,
         nh |-> nh,
         dx |-> (inputSize - nw) \div 2,
         dy |-> (inputSize - nh) \div 2,
         originalWidth |-> width, originalHeight |-> height]

\* ctx.drawImage(inputCanvas, 0, 0, width, height, dx, dy, nw, nh): the source
\* point at normalized (x, y) is drawn at tensor position (dx + x*nw, dy + y*nh)
drawImage(point, lb) ==
    <<RatAdd(RatInt(lb.dx), RatMul(point[1], RatInt(lb.nw))),
      RatAdd(RatInt(lb.dy), RatMul(point[2], RatInt(lb.nh)))>>

\* mutant: the decoder forgets to subtract the letterbox offsets
Unletterbox_NoPadSubtract(box, scale, dx, dy, originalWidth, originalHeight) ==
    LET x1 == RatDiv(box[1], scale)
        y1 == RatDiv(box[2], scale)
        x2 == RatDiv(box[3], scale)
        y2 == RatDiv(box[4], scale)
    IN  [xmin |-> RatMax(RatInt(0), RatDiv(x1, RatInt(originalWidth))),
         ymin |-> RatMax(RatInt(0), RatDiv(y1, RatInt(originalHeight))),
         xmax |-> RatMin(RatInt(1), RatDiv(x2, RatInt(originalWidth))),
         ymax |-> RatMin(RatInt(1), RatDiv(y2, RatInt(originalHeight)))]

\* processOutput, per kept box: unletterbox, normalize, clamp
Unletterbox(box, scale, dx, dy, originalWidth, originalHeight) ==
    LET x1 == RatDiv(RatSub(box[1], RatInt(dx)), scale)
        y1 == RatDiv(RatSub(box[2], RatInt(dy)), scale)
        x2 == RatDiv(RatSub(box[3], RatInt(dx)), scale)
        y2 == RatDiv(RatSub(box[4], RatInt(dy)), scale)
    IN  [xmin |-> RatMax(RatInt(0), RatDiv(x1, RatInt(originalWidth))),
         ymin |-> RatMax(RatInt(0), RatDiv(y1, RatInt(originalHeight))),
         xmax |-> RatMin(RatInt(1), RatDiv(x2, RatInt(originalWidth))),
         ymax |-> RatMin(RatInt(1), RatDiv(y2, RatInt(originalHeight)))]

\* frame sizes: the hook's 320x240 canvas, the camera's 640x480, small sizes
FrameSizes == {<<320, 240>>, <<640, 480>>} \cup ((1..MaxDim) \X (1..MaxDim))

GridPoints == {<<Rat(kx, PointGrid), Rat(ky, PointGrid)>> : kx, ky \in 0..PointGrid}

\* placeholders before a point has been encoded and decoded
NoPoint == <<RatInt(0), RatInt(0)>>
NoBox == [xmin |-> RatInt(0), ymin |-> RatInt(0), xmax |-> RatInt(0), ymax |-> RatInt(0)]

LbParams == preprocessImage(lbFrame[1], lbFrame[2], InputSize)

\* the encoder places a source point in the tensor
LbEncode(point) ==
    /\ lbPc = "idle"
    /\ lbPoint' = point
    /\ lbTensor' = drawImage(point, LbParams)
    /\ lbPc' = "encoded"
    /\ UNCHANGED <<lbFrame, lbDecoded, notLbVars>>

\* the decoder maps the tensor point (a box with equal corners) back
LbDecode ==
    /\ lbPc = "encoded"
    /\ lbDecoded' = Unletterbox(<<lbTensor[1], lbTensor[2], lbTensor[1], lbTensor[2]>>,
                                LbParams.scale, LbParams.dx, LbParams.dy,
                                LbParams.originalWidth, LbParams.originalHeight)
    /\ lbPc' = "decoded"
    /\ UNCHANGED <<lbFrame, lbPoint, lbTensor, notLbVars>>

\* the next frame arrives
LbNextFrame(size) ==
    /\ lbPc = "decoded"
    /\ lbFrame' = size
    /\ lbPoint' = NoPoint
    /\ lbTensor' = NoPoint
    /\ lbDecoded' = NoBox
    /\ lbPc' = "idle"
    /\ UNCHANGED notLbVars

LbStart ==
    /\ lbPoint = NoPoint
    /\ lbTensor = NoPoint
    /\ lbDecoded = NoBox
    /\ lbPc = "idle"

LbInit == lbFrame \in FrameSizes /\ LbStart

\* the codec left unused
LbIdle == lbFrame = <<320, 240>> /\ LbStart

LbNext ==
    \/ \E point \in GridPoints : LbEncode(point)
    \/ LbDecode
    \/ \E size \in FrameSizes : LbNextFrame(size)

-----------------------------------------------------------------------------
(* Detection decoder: processOutput and nms.  Array indices are 1-based here
   (0-based in the code); class ids keep the code's 0-based numbering.
   Scores are in hundredths.  Box parameters are integers with even widths
   and heights, so that x - w/2 is the integer x - (w \div 2). *)

\* for (let j = 0; j < 80; j++)
NumClasses == 80
\* if (maxScore > 0.25), in hundredths
ConfidenceThreshold == 25
\* nms(boxes, scores, 0.45), in hundredths
IouThreshold == 45

\* CLASS_NAMES[classId], for the classes the explored outputs use
CLASS_NAMES(classId) ==
    CASE classId = 0 -> "person"
      [] classId = 1 -> "bicycle"
      [] classId = 2 -> "car"
      [] OTHER -> "other"

\* outputData[i + (4 + j) * numDetections]: the anchor's confidence for class j
ClassScore(anchor, j) == IF j = anchor.cls THEN anchor.conf ELSE 0

\* the class loop of processOutput from class j on: <<maxScore, maxClassId>>
RECURSIVE ScanClasses(_, _, _, _)
ScanClasses(anchor, j, maxScore, maxClassId) ==
    IF j >= NumClasses THEN <<maxScore, maxClassId>>
    ELSE IF ClassScore(anchor, j) > maxScore
         THEN ScanClasses(anchor, j + 1, ClassScore(anchor, j), j)
         ELSE ScanClasses(anchor, j + 1, maxScore, maxClassId)

\* center format to corner format
CornerBox(anchor) ==
    <<anchor.x - (anchor.w \div 2), anchor.y - (anchor.h \div 2),
      anchor.x + (anchor.w \div 2), anchor.y + (anchor.h \div 2)>>

\* the anchor loop of processOutput: the candidates [box, score, classId] of
\* the first n anchors, in anchor order
RECURSIVE Candidates(_, _)
Candidates(output, n) ==
    IF n = 0 THEN <<>>
    ELSE LET best == ScanClasses(output[n], 0, 0, 0)
         IN  IF best[1] > ConfidenceThreshold
             THEN Append(Candidates(output, n - 1),
                         [box |-> CornerBox(output[n]), score |-> best[1],
                          classId |-> best[2]])
             ELSE Candidates(output, n - 1)

\* areas = boxes.map(box => (box[2] - box[0]) * (box[3] - box[1]))
Area(box) == (box[3] - box[1]) * (box[4] - box[2])

\* inter of the nms loop
Inter(a, b) ==
    LET xx1 == Max(a[1], b[1])
        yy1 == Max(a[2], b[2])
        xx2 == Min(a[3], b[3])
        yy2 == Min(a[4], b[4])
    IN  Max(0, xx2 - xx1) * Max(0, yy2 - yy1)

\* iou <= iouThreshold, where iou = inter / (areas[i] + areas[idx] - inter) is
\* a float: 0/0 is NaN and x/0 is Infinity, neither is <= the threshold; a
\* negative denominator gives a quotient <= 0
IouLeqThreshold(a, b, iouThreshold) ==
    LET inter == Inter(a, b)
        den == Area(a) + Area(b) - inter
    IN  IF den = 0 THEN FALSE
        ELSE IF den > 0 THEN 100 * inter <= iouThreshold * den
        ELSE TRUE

\* scores.map((_, i) => i).sort((a, b) => scores[b] - scores[a]): descending
\* score, equal scores in index order (the sort is stable)
SortedOrder(scs) ==
    LET n == Len(scs)
        rank(i) == 1 + Cardinality({j \in 1..n :
                        scs[j] > scs[i] \/ (scs[j] = scs[i] /\ j < i)})
    IN  [k \in 1..n |-> CHOOSE i \in 1..n : rank(i) = k]

\* newOrder of one pass of the nms loop: the entries after the head whose iou
\* with the head is <= the threshold
RECURSIVE NewOrder(_, _, _, _)
NewOrder(bxs, order, j, iouThreshold) ==
    IF j > Len(order) THEN <<>>
    ELSE IF IouLeqThreshold(bxs[order[1]], bxs[order[j]], iouThreshold)
         THEN <<order[j]>> \o NewOrder(bxs, order, j + 1, iouThreshold)
         ELSE NewOrder(bxs, order, j + 1, iouThreshold)

\* order.splice(0, 1, ...newOrder): the head is removed and newOrder inserted
\* in its place; the entries that followed the head stay
OrderAfterSplice(order, newOrder) == newOrder \o Tail(order)

\* the explored anchors: A and B overlap (IoU 0.82), C is apart, D lies in the
\* top letterbox band of a 4:3 frame, E has zero area
AnchorChoices ==
    { [x |-> 150, y |-> 140, w |-> 100, h |-> 80, cls |-> 0, conf |-> 90],
      [x |-> 160, y |-> 140, w |-> 100, h |-> 80, cls |-> 0, conf |-> 80],
      [x |-> 160, y |-> 140, w |-> 100, h |-> 80, cls |-> 2, conf |-> 80],
      [x |-> 400, y |-> 300, w |-> 100, h |-> 80, cls |-> 1, conf |-> 60],
      [x |-> 150, y |-> 30, w |-> 100, h |-> 40, cls |-> 0, conf |-> 70],
      [x |-> 300, y |-> 300, w |-> 0, h |-> 0, cls |-> 0, conf |-> 50],
      [x |-> 150, y |-> 140, w |-> 100, h |-> 80, cls |-> 0, conf |-> 25],
      [x |-> 150, y |-> 140, w |-> 100, h |-> 80, cls |-> 0, conf |-> 20] }

RawOutputs == UNION {[1..n -> AnchorChoices] : n \in 0..MaxAnchors}

\* frame sizes of a message: the hook's canvas, the camera's size, and
\* malformed frames with a zero width or height
DecFrameSizes == {<<320, 240>>, <<640, 480>>, <<0, 240>>, <<320, 0>>}

\* new ImageData(data, width, height) throws an IndexSizeError
ImageDataThrows(width, height) == width = 0 \/ height = 0

DecParams == preprocessImage(decFrame[1], decFrame[2], InputSize)

\* processOutput up to the call of nms, and the first lines of nms
ProcessOutputCandidates ==
    /\ decPc = "start"
    /\ decBackend = "model"
    /\ ~ImageDataThrows(decFrame[1], decFrame[2])
    /\ LET cands == Candidates(rawOutput, Len(rawOutput))
       IN  /\ boxes' = [i \in 1..Len(cands) |-> cands[i].box]
           /\ scores' = [i \in 1..Len(cands) |-> cands[i].score]
           /\ classIds' = [i \in 1..Len(cands) |-> cands[i].classId]
           /\ nmsOrder' = SortedOrder([i \in 1..Len(cands) |-> cands[i].score])
    /\ nmsIndices' = <<>>
    /\ decPc' = "nms"
    /\ UNCHANGED <<decFrame, decBackend, rawOutput, decDetections, notDecVars>>

\* one pass of while (order.length > 0) in nms
NmsStep ==
    /\ decPc = "nms"
    /\ nmsOrder # <<>>
    /\ Len(nmsIndices) < MaxNmsSteps
    /\ nmsIndices' = Append(nmsIndices, nmsOrder[1])
    /\ nmsOrder' = OrderAfterSplice(nmsOrder, NewOrder(boxes, nmsOrder, 2, IouThreshold))
    /\ UNCHANGED <<decFrame, decBackend, rawOutput, boxes, scores, classIds,
                   decDetections, decPc, notDecVars>>

\* the detection processOutput pushes for keepIndices entry idx
DetectionOf(idx) ==
    LET lb == DecParams
        n == Unletterbox(<<RatInt(boxes[idx][1]), RatInt(boxes[idx][2]),
                           RatInt(boxes[idx][3]), RatInt(boxes[idx][4])>>,
                         lb.scale, lb.dx, lb.dy, lb.originalWidth, lb.originalHeight)
    IN  [label |-> CLASS_NAMES(classIds[idx]), score |-> Rat(scores[idx], 100),
         xmin |-> n.xmin, ymin |-> n.ymin, xmax |-> n.xmax, ymax |-> n.ymax]

\* nms has returned (order is empty): processOutput maps keepIndices to
\* detections
ProcessOutputEmit ==
    /\ decPc = "nms"
    /\ nmsOrder = <<>>
    /\ decDetections' = [k \in 1..Len(nmsIndices) |-> DetectionOf(nmsIndices[k])]
    /\ decPc' = "done"
    /\ UNCHANGED <<decFrame, decBackend, rawOutput, boxes, scores, classIds,
                   nmsOrder, nmsIndices, notDecVars>>

\* Math.random() values
Randoms == {Rat(k, RandomGrid) : k \in 0..(RandomGrid - 1)}

\* base + Math.random() * 0.1, base in hundredths
Jitter(base, r) == RatAdd(Rat(base, 100), RatMul(r, Rat(1, 10)))

\* the mock detections of the worker's fallback path (no yoloSession)
MockFallback(r1, r2, r3, r4, r5) ==
    /\ decPc = "start"
    /\ decBackend = "stub"
    /\ decDetections' = << [label |-> "person", score |-> Jitter(85, r1),
                            xmin |-> Jitter(10, r2), ymin |-> Jitter(15, r3),
                            xmax |-> Jitter(40, r4), ymax |-> Jitter(80, r5)] >>
    /\ decPc' = "done"
    /\ UNCHANGED <<decFrame, decBackend, rawOutput, boxes, scores, classIds,
                   nmsOrder, nmsIndices, notDecVars>>

\* the try block of self.onmessage throws before inference: the catch posts
\* an empty detection list
CatchPostsEmpty ==
    /\ decPc = "start"
    /\ decBackend = "model"
    /\ ImageDataThrows(decFrame[1], decFrame[2])
    /\ decDetections' = <<>>
    /\ decPc' = "done"
    /\ UNCHANGED <<decFrame, decBackend, rawOutput, boxes, scores, classIds,
                   nmsOrder, nmsIndices, notDecVars>>

DecStart ==
    /\ boxes = <<>>
    /\ scores = <<>>
    /\ classIds = <<>>
    /\ nmsOrder = <<>>
    /\ nmsIndices = <<>>
    /\ decDetections = <<>>
    /\ decPc = "start"

DecInit ==
    /\ decFrame \in DecFrameSizes
    /\ \/ decBackend = "model" /\ rawOutput \in RawOutputs
       \/ decBackend = "stub" /\ rawOutput = <<>>
    /\ DecStart

\* the decoder left unused
DecIdle ==
    /\ decFrame = <<320, 240>>
    /\ decBackend = "stub"
    /\ rawOutput = <<>>
    /\ DecStart

DecNext ==
    \/ ProcessOutputCandidates
    \/ NmsStep
    \/ ProcessOutputEmit
    \/ \E r1, r2, r3, r4, r5 \in Randoms : MockFallback(r1, r2, r3, r4, r5)
    \/ CatchPostsEmpty

-----------------------------------------------------------------------------
(* useObjectDetection.  A callback closes over the state of the render that
   created it: the caller invokes the startDetection of the current render,
   whose processFrame saw the isProcessing and mode of that render, and the
   interval it creates keeps calling that processFrame.  Date.now() is
   modelled by the number of frames dispatched so far. *)

\* an optional field that is absent; a present value v is <<v>>
Absent == <<>>
Some(v) == <<v>>

Now == Len(frames) + 1

\* a Detection as the hook publishes it
Detection(label, frame_id, capture_ts, recv_ts, inference_ts) ==
    [label |-> label, frame_id |-> frame_id, capture_ts |-> capture_ts,
     recv_ts |-> recv_ts, inference_ts |-> inference_ts]

\* a detection of a worker or of the server: label, score and box only
PlainDetection(label) == Detection(label, Absent, Absent, Absent, Absent)

\* no reply posted yet
NoReply == [detections |-> <<>>, frameId |-> Absent, timestamp |-> Absent]

CallIds == 1..Len(calls)
FrameIds == 1..Len(frames)

\* frames whose inference has been started and has not completed
InFlight ==
    {k \in FrameIds : frames[k].pc \in {"queued", "loading", "running", "fetching"}}

\* the worker effect of useEffect(..., [mode]) when the mode is wasm
NewWorkerState ==
    /\ wModel' = FALSE
    /\ wInitialized' = FALSE
    /\ wBoot' = (workerScript = "detectionWorker")
    /\ wHung' = FALSE
    /\ UNCHANGED workerScript

\* the body of startDetection(stream), up to its await
DetectionStarted(stream) ==
    IF stream = "null"
    THEN UNCHANGED hookVars
    ELSE /\ streamRef' = TRUE
         /\ isProcessing' = TRUE
         /\ calls' = Append(calls, [pc |-> "awaitMetadata",
                                   isProcessing |-> isProcessing, mode |-> mode])
         /\ phase' = "Streaming"
         /\ UNCHANGED <<mode, detections, workerRef, intervalRef, frames, replyQueue,
                        workersCreated, workerVars, published>>

\* startDetection(stream)
startDetection(stream) ==
    /\ Len(calls) < MaxStarts
    /\ DetectionStarted(stream)
    /\ UNCHANGED notHookVars

\* video.onloadedmetadata fires for call c: startDetection resumes and sets
\* the interval
MetadataLoaded(c) ==
    /\ calls[c].pc = "awaitMetadata"
    /\ calls' = [calls EXCEPT ![c].pc = "interval"]
    /\ intervalRef' = c
    /\ UNCHANGED <<mode, isProcessing, detections, workerRef, streamRef, frames,
                   replyQueue, workersCreated, workerVars, published, phase>>

onloadedmetadata(c) == MetadataLoaded(c) /\ UNCHANGED notHookVars

\* mutant: the wasm branch does not test workerRef.current
ProcessFrameBranch_NoWorkerCheck(c) ==
    IF ~calls[c].isProcessing THEN "return"
    ELSE IF calls[c].mode = "wasm" THEN "post"
    ELSE IF calls[c].mode = "server" THEN "fetch"
    ELSE "return"

\* what processFrame of call c does on a tick: "post", "fetch" or "return"
ProcessFrameBranch(c) ==
    IF ~calls[c].isProcessing THEN "return"
    ELSE IF calls[c].mode = "wasm" /\ workerRef # 0 THEN "post"
    ELSE IF calls[c].mode = "server" THEN "fetch"
    ELSE "return"

\* the interval of call c fires: processFrame(video)
processFrame(c) ==
    /\ calls[c].pc = "interval"
    /\ CASE ProcessFrameBranch(c) = "post" ->
              /\ Len(frames) < MaxFrames
              /\ frames' = Append(frames, [ts |-> Now, via |-> "wasm", worker |-> workerRef,
                                           pc |-> "queued", failed |-> FALSE,
                                           loadFailed |-> FALSE, reply |-> NoReply])
         [] ProcessFrameBranch(c) = "fetch" ->
              /\ Len(frames) < MaxFrames
              /\ frames' = Append(frames, [ts |-> Now, via |-> "server", worker |-> 0,
                                           pc |-> "fetching", failed |-> FALSE,
                                           loadFailed |-> FALSE, reply |-> NoReply])
         [] OTHER -> UNCHANGED frames
    /\ UNCHANGED <<mode, isProcessing, detections, hookRefs, calls, replyQueue,
                   workersCreated, workerVars, published, phase>>
    /\ UNCHANGED notHookVars

\* the body of stopDetection()
DetectionStopped ==
    /\ isProcessing' = FALSE
    /\ detections' = <<>>
    /\ streamRef' = FALSE
    /\ IF intervalRef # 0
       THEN /\ calls' = [calls EXCEPT ![intervalRef].pc = "cleared"]
            /\ intervalRef' = 0
       ELSE UNCHANGED <<calls, intervalRef>>
    /\ phase' = "Stopped"
    /\ UNCHANGED <<mode, workerRef, frames, replyQueue, workersCreated, workerVars,
                   published>>

\* stopDetection()
stopDetection == DetectionStopped /\ UNCHANGED notHookVars

\* worker.terminate(): its queued messages, running handlers and undelivered
\* replies are gone
Terminated(fs) ==
    [k \in 1..Len(fs) |->
        IF fs[k].via = "wasm" /\ fs[k].pc \in {"queued", "loading", "running", "replied", "hung"}
        THEN [fs[k] EXCEPT !.pc = "lost"]
        ELSE fs[k]]

\* the mode prop changes: the cleanup of the worker effect, then the effect
setMode(m) ==
    /\ m # mode
    /\ m = "wasm" => workersCreated < MaxWorkers
    /\ mode' = m
    /\ frames' = Terminated(frames)
    /\ replyQueue' = <<>>
    /\ IF m = "wasm"
       THEN /\ workersCreated' = workersCreated + 1
            /\ workerRef' = workersCreated + 1
            /\ NewWorkerState
       ELSE /\ workerRef' = 0
            /\ UNCHANGED <<workersCreated, workerVars>>
    /\ UNCHANGED <<isProcessing, detections, streamRef, intervalRef, calls, published,
                   phase>>
    /\ UNCHANGED notHookVars

\* the mock detections of the demo effect
MockDetections ==
    << Detection("person", Some(Now), Some(Now), Some(Now + 10), Some(Now + 25)),
       Detection("phone", Some(Now + 1), Some(Now), Some(Now + 8), Some(Now + 20)) >>

\* the 2 s timeout of the demo effect fires: it is pending while isProcessing
\* holds and detections is empty
mockTimeout ==
    /\ isProcessing
    /\ detections = <<>>
    /\ detections' = MockDetections
    /\ UNCHANGED <<mode, isProcessing, hookRefs, calls, frames, replyQueue,
                   workersCreated, workerVars, published, phase>>
    /\ UNCHANGED notHookVars

\* the reply a worker posts for frame k with these detections:
\* detectionWorker.js derives frameId from the timestamp, the yolo worker
\* echoes event.data.frameId, which the hook never sends
Reply(k, dets) ==
    [detections |-> dets,
     frameId |-> IF workerScript = "detectionWorker" THEN Some(frames[k].ts) ELSE Absent,
     timestamp |-> Some(frames[k].ts)]

\* the mock detections a worker answers with when no model is loaded
WorkerMock ==
    IF workerScript = "detectionWorker"
    THEN <<PlainDetection("person"), PlainDetection("phone")>>
    ELSE <<PlainDetection("person")>>

\* the detection lists a successful inference can give: postprocessResults of
\* detectionWorker.js returns [], processOutput any list
InferenceResults ==
    IF workerScript = "detectionWorker"
    THEN {<<>>}
    ELSE {<<>>, <<PlainDetection("person")>>}

\* self.postMessage(...) for frame k
PostReply(k, dets, failed) ==
    /\ frames' = [frames EXCEPT ![k].pc = "replied", ![k].failed = failed,
                                ![k].reply = Reply(k, dets)]
    /\ replyQueue' = Append(replyQueue, k)

\* the oldest message of the current worker's queue
OldestQueued(k) ==
    /\ frames[k].pc = "queued"
    /\ frames[k].worker = workerRef
    /\ \A j \in 1..(k - 1) : ~(frames[j].pc = "queued" /\ frames[j].worker = workerRef)

\* the model is unavailable to the handler: !yoloSession, resp. !isInitialized
NoModel == IF workerScript = "detectionWorker" THEN ~wInitialized ELSE ~wModel

\* self.onmessage starts for the oldest queued frame and runs to its first
\* await: of initializeModel() when no model is available, else of run()
worker_onmessage(k) ==
    /\ ~wHung
    /\ OldestQueued(k)
    /\ frames' = [frames EXCEPT ![k].pc = IF NoModel THEN "loading" ELSE "running"]
    /\ UNCHANGED <<mode, isProcessing, detections, hookRefs, calls, replyQueue,
                   workersCreated, workerVars, published, phase>>
    /\ UNCHANGED notHookVars

\* initializeModel: InferenceSession.create resolved (ok) or threw and the
\* catch logged the failure
ModelAfterLoad(ok) ==
    /\ wModel' = (wModel \/ ok)
    /\ wInitialized' = IF workerScript = "detectionWorker" THEN ok ELSE wInitialized

\* the await initializeModel() of frame k's handler returns; the handler goes
\* on to the mock answer or to the await of run()
initializeModel_done(k, ok) ==
    /\ ~wHung
    /\ frames[k].pc = "loading"
    /\ frames[k].worker = workerRef
    /\ ModelAfterLoad(ok)
    /\ IF IF workerScript = "detectionWorker" THEN ~ok ELSE ~(wModel \/ ok)
       THEN /\ frames' = [frames EXCEPT ![k].pc = "replied", ![k].loadFailed = ~ok,
                                        ![k].reply = Reply(k, WorkerMock)]
            /\ replyQueue' = Append(replyQueue, k)
       ELSE /\ frames' = [frames EXCEPT ![k].pc = "running", ![k].loadFailed = ~ok]
            /\ UNCHANGED replyQueue
    /\ UNCHANGED <<mode, isProcessing, detections, hookRefs, calls, workersCreated,
                   workerScript, wBoot, wHung, published, phase>>
    /\ UNCHANGED notHookVars

\* detectionWorker.js: the initializeModel() started at worker load ends
initializeModel_boot(ok) ==
    /\ ~wHung
    /\ wBoot
    /\ workerRef # 0
    /\ wBoot' = FALSE
    /\ ModelAfterLoad(ok)
    /\ UNCHANGED <<mode, isProcessing, detections, hookRefs, calls, frames, replyQueue,
                   workersCreated, workerScript, wHung, published, phase>>
    /\ UNCHANGED notHookVars

\* the await of run() of frame k's handler returns detections and the
\* decoder returns
run_done(k, dets) ==
    /\ ~wHung
    /\ frames[k].pc = "running"
    /\ frames[k].worker = workerRef
    /\ PostReply(k, dets, FALSE)
    /\ UNCHANGED <<mode, isProcessing, detections, hookRefs, calls, workersCreated,
                   workerVars, published, phase>>
    /\ UNCHANGED notHookVars

\* preprocessing or run() throws for frame k: the catch posts an empty list
run_throws(k) ==
    /\ ~wHung
    /\ frames[k].pc = "running"
    /\ frames[k].worker = workerRef
    /\ PostReply(k, <<>>, TRUE)
    /\ UNCHANGED <<mode, isProcessing, detections, hookRefs, calls, workersCreated,
                   workerVars, published, phase>>
    /\ UNCHANGED notHookVars

\* yolo worker: run() returns and the while loop of nms never ends; the
\* worker handles nothing any more
run_hangs(k) ==
    /\ ~wHung
    /\ workerScript = "yoloWorker"
    /\ frames[k].pc = "running"
    /\ frames[k].worker = workerRef
    /\ frames' = [frames EXCEPT ![k].pc = "hung"]
    /\ wHung' = TRUE
    /\ UNCHANGED <<mode, isProcessing, detections, hookRefs, calls, replyQueue,
                   workersCreated, workerScript, wModel, wInitialized, wBoot, published,
                   phase>>
    /\ UNCHANGED notHookVars

\* workerRef.current.onmessage: the hook publishes the oldest posted reply
hook_onmessage ==
    /\ replyQueue # <<>>
    /\ LET k == Head(replyQueue)
       IN  /\ detections' = frames[k].reply.detections
           /\ published' = Append(published, [frame |-> k,
                                              detections |-> frames[k].reply.detections])
           /\ frames' = [frames EXCEPT ![k].pc = "delivered"]
    /\ replyQueue' = Tail(replyQueue)
    /\ UNCHANGED <<mode, isProcessing, hookRefs, calls, workersCreated, workerVars, phase>>
    /\ UNCHANGED notHookVars

\* fetch('/api/detect') answers ok: setDetections(result.detections || [])
fetch_ok(k, dets) ==
    /\ frames[k].pc = "fetching"
    /\ detections' = dets
    /\ published' = Append(published, [frame |-> k, detections |-> dets])
    /\ frames' = [frames EXCEPT ![k].pc = "delivered", ![k].reply.detections = dets]
    /\ UNCHANGED <<mode, isProcessing, hookRefs, calls, replyQueue, workersCreated,
                   workerVars, phase>>
    /\ UNCHANGED notHookVars

\* the request fails: fetch rejects (the catch logs) or the response is not ok
fetch_fails(k) ==
    /\ frames[k].pc = "fetching"
    /\ frames' = [frames EXCEPT ![k].pc = "dropped", ![k].failed = TRUE]
    /\ UNCHANGED <<mode, isProcessing, detections, hookRefs, calls, replyQueue,
                   workersCreated, workerVars, published, phase>>
    /\ UNCHANGED notHookVars

\* the detection lists of an ok response
ServerResults == {<<>>, <<PlainDetection("person")>>}

WorkerScripts == {"detectionWorker", "yoloWorker"}

\* the hook mounted with mode = 'wasm' (Index.tsx): the effect has created
\* the first worker
HookStart ==
    /\ mode = "wasm"
    /\ isProcessing = FALSE
    /\ detections = <<>>
    /\ workerRef = 1
    /\ streamRef = FALSE
    /\ intervalRef = 0
    /\ calls = <<>>
    /\ frames = <<>>
    /\ replyQueue = <<>>
    /\ workersCreated = 1
    /\ wModel = FALSE
    /\ wInitialized = FALSE
    /\ wBoot = (workerScript = "detectionWorker")
    /\ wHung = FALSE
    /\ published = <<>>
    /\ phase = "Idle"

HookInit == workerScript \in WorkerScripts /\ HookStart

\* the hook left unused
HookIdle == workerScript = "detectionWorker" /\ HookStart

HookNext ==
    \/ \E stream \in {"null", "stream"} : startDetection(stream)
    \/ \E c \in CallIds : onloadedmetadata(c)
    \/ \E c \in CallIds : processFrame(c)
    \/ stopDetection
    \/ \E m \in {"wasm", "server"} : setMode(m)
    \/ mockTimeout
    \/ \E k \in FrameIds : worker_onmessage(k)
    \/ \E k \in FrameIds, ok \in BOOLEAN : initializeModel_done(k, ok)
    \/ \E ok \in BOOLEAN : initializeModel_boot(ok)
    \/ \E k \in FrameIds : \E dets \in InferenceResults : run_done(k, dets)
    \/ \E k \in FrameIds : run_throws(k)
    \/ \E k \in FrameIds : run_hangs(k)
    \/ hook_onmessage
    \/ \E k \in FrameIds : \E dets \in ServerResults : fetch_ok(k, dets)
    \/ \E k \in FrameIds : fetch_fails(k)

-----------------------------------------------------------------------------
(* useMetrics.  updateMetrics also sets fps, the simulated bandwidth and
   latencies and a timestamp; they depend on the clock and on Math.random()
   only and are left out of the metrics record. *)

\* latencyMeasurements.current.length > 100, slice(-100)
LatencyCapacity == 100

\* processing times a caller of recordFrameProcessed passes (milliseconds);
\* 0 is what the worker reports for a frame whose inference threw
Latencies == {0, 10, 30, 50}

\* 45 + Math.random() * 30 of the n-th tick of the mock interval
MockTime(n) == 45 + ((n * 7) % 30)

RECURSIVE Insert(_, _)
\* the ascending sequence s with v inserted at its place
Insert(s, v) ==
    IF s = <<>> THEN <<v>>
    ELSE IF v <= Head(s) THEN <<v>> \o s
    ELSE <<Head(s)>> \o Insert(Tail(s), v)

RECURSIVE SortAscending(_)
\* [...s].sort((a, b) => a - b)
SortAscending(s) ==
    IF s = <<>> THEN <<>> ELSE Insert(SortAscending(Tail(s)), Head(s))

\* sorted[index] || 0, index counted from 0
ElementOrZero(sorted, index) ==
    IF index + 1 \in 1..Len(sorted) THEN sorted[index + 1] ELSE 0

\* Math.floor(length / 2)
MedianIndex(length) == length \div 2

\* Math.floor(length * 0.95)
P95Index(length) == (length * 95) \div 100

\* mutant: the p95 index is rounded up instead of down
LatencyStats_P95RoundedUp(buffer) ==
    LET sortedLatencies == SortAscending(buffer)
    IN  [median |-> ElementOrZero(sortedLatencies, MedianIndex(Len(sortedLatencies))),
         p95 |-> ElementOrZero(sortedLatencies, (Len(sortedLatencies) * 95 + 99) \div 100)]

\* updateMetrics: median and p95 of the latency buffer
LatencyStats(buffer) ==
    LET sortedLatencies == SortAscending(buffer)
    IN  [median |-> ElementOrZero(sortedLatencies, MedianIndex(Len(sortedLatencies))),
         p95 |-> ElementOrZero(sortedLatencies, P95Index(Len(sortedLatencies)))]

\* the interval of startBenchmark fires: updateMetrics()
updateMetrics ==
    /\ metricsIntervalRef
    /\ metrics' = [latency |-> LatencyStats(latencyMeasurements),
                   framesProcessed |-> frameCountRef]
    /\ latencyFresh' = TRUE
    /\ UNCHANGED <<isRunning, metricsRefs, feed, sessions, recordCalls, samples, pushes,
                   decoded>>
    /\ UNCHANGED notMetricsVars

\* mutant: the buffer keeps its first 100 samples and drops the new one
BufferAfterPush_KeepFirst(buffer, processingTime) ==
    IF Len(buffer) + 1 > LatencyCapacity THEN buffer ELSE Append(buffer, processingTime)

\* push(processingTime), then slice(-100) when the length exceeds 100
BufferAfterPush(buffer, processingTime) ==
    LET pushed == Append(buffer, processingTime)
    IN  IF Len(pushed) > LatencyCapacity
        THEN SubSeq(pushed, Len(pushed) - LatencyCapacity + 1, Len(pushed))
        ELSE pushed

\* if (processingTime): 0 (like undefined and NaN) is falsy
Truthy(processingTime) == processingTime # 0

\* the body of recordFrameProcessed(processingTime)
RecordFrame(processingTime) ==
    /\ frameCountRef' = frameCountRef + 1
    /\ recordCalls' = recordCalls + 1
    /\ IF Truthy(processingTime)
       THEN /\ latencyMeasurements' = BufferAfterPush(latencyMeasurements, processingTime)
            /\ samples' = Append(samples, processingTime)
            /\ pushes' = pushes + 1
            /\ latencyFresh' = FALSE
       ELSE UNCHANGED <<latencyMeasurements, samples, pushes, latencyFresh>>
    /\ UNCHANGED <<isRunning, metricsIntervalRef, metrics, feed, sessions, decoded>>
    /\ UNCHANGED notMetricsVars

\* a user of the hook calls recordFrameProcessed(processingTime)
recordFrameProcessed(processingTime) ==
    /\ feed = "calls"
    /\ recordCalls < MaxRecords
    /\ RecordFrame(processingTime)

\* the mock interval of the isRunning effect fires:
\* recordFrameProcessed(45 + Math.random() * 30)
mockInterval ==
    /\ isRunning
    /\ recordCalls < (IF feed = "calls" THEN MaxRecords ELSE LatencyCapacity + MaxOverflow)
    /\ RecordFrame(MockTime(recordCalls))

\* the body of startBenchmark()
BenchmarkStarted ==
    IF isRunning
    THEN UNCHANGED metricsVars
    ELSE /\ isRunning' = TRUE
         /\ frameCountRef' = 0
         /\ latencyMeasurements' = <<>>
         /\ metricsIntervalRef' = TRUE
         /\ sessions' = sessions + 1
         /\ samples' = <<>>
         /\ decoded' = 0
         /\ latencyFresh' = FALSE
         /\ UNCHANGED <<metrics, feed, recordCalls, pushes>>

\* startBenchmark()
startBenchmark ==
    /\ sessions < (IF feed = "calls" THEN MaxSessions ELSE 1)
    /\ BenchmarkStarted
    /\ UNCHANGED notMetricsVars

\* the body of stopBenchmark()
BenchmarkStopped ==
    IF ~isRunning
    THEN UNCHANGED metricsVars
    ELSE /\ isRunning' = FALSE
         /\ metricsIntervalRef' = FALSE
         /\ UNCHANGED <<frameCountRef, latencyMeasurements, metrics, feed,
                        metricsHistory>>

\* stopBenchmark()
stopBenchmark == BenchmarkStopped /\ UNCHANGED notMetricsVars

\* the detection hook publishes the result of a frame (onmessage or the fetch
\* continuation): nothing in it calls recordFrameProcessed
frameCompleted ==
    /\ decoded < MaxDecoded
    /\ decoded' = decoded + 1
    /\ UNCHANGED <<isRunning, metricsRefs, metrics, feed, sessions, recordCalls,
                   samples, pushes, latencyFresh>>
    /\ UNCHANGED notMetricsVars

\* useMetrics mounted
MetricsStart ==
    /\ isRunning = FALSE
    /\ frameCountRef = 0
    /\ latencyMeasurements = <<>>
    /\ metricsIntervalRef = FALSE
    /\ metrics = [latency |-> [median |-> 0, p95 |-> 0], framesProcessed |-> 0]
    /\ sessions = 0
    /\ recordCalls = 0
    /\ samples = <<>>
    /\ pushes = 0
    /\ decoded = 0
    /\ latencyFresh = TRUE

MetricsInit == feed \in {"calls", "burst"} /\ MetricsStart

\* the metrics hook left unused
MetricsIdle == feed = "calls" /\ MetricsStart

MetricsNext ==
    \/ startBenchmark
    \/ stopBenchmark
    \/ updateMetrics
    \/ \E processingTime \in Latencies : recordFrameProcessed(processingTime)
    \/ mockInterval
    \/ frameCompleted

-----------------------------------------------------------------------------
(* The page (Index.tsx) and useWebRTC.  A handler runs to its end or to its
   next await in one step; React then renders, and when localStream has
   changed the effect of useEffect(..., [disconnect]) is replaced: its cleanup
   calls the disconnect of the previous render, which still sees the
   previous localStream.  No signalling is implemented, so no remote track
   arrives and no connection state change is reported: remoteStream stays
   null and is left out. *)

\* connect() calls of one run
MaxConnects == 3

ConnectIds == 1..Len(connects)

\* the state useWebRTC keeps, as one record
WebRTC ==
    [localStream |-> localStream, isConnected |-> isConnected,
     peerConnectionRef |-> peerConnectionRef, dataChannelRef |-> dataChannelRef,
     peers |-> peers]

\* peerConnectionRef.current.close() and dataChannelRef.current.close()
Closed(ps, pc, dc, by) ==
    [i \in 1..Len(ps) |->
        IF i \in {pc, dc} /\ ps[i].state = "open"
        THEN [state |-> "closed", closedBy |-> by]
        ELSE ps[i]]

\* disconnect() of the render that saw localStream = closure, called by `by`
disconnect(w, closure, by) ==
    [localStream |-> IF closure # 0 THEN 0 ELSE w.localStream,
     isConnected |-> FALSE,
     peerConnectionRef |-> 0,
     dataChannelRef |-> 0,
     peers |-> Closed(w.peers, w.peerConnectionRef, w.dataChannelRef, by)]

\* React renders until the state is stable: each render that sees a new
\* localStream runs the cleanup of the effect of the render before it
RECURSIVE Rendered(_, _)
Rendered(w, seen) ==
    IF w.localStream = seen
    THEN w
    ELSE Rendered(disconnect(w, seen, "cleanup"), w.localStream)

\* the handler leaves useWebRTC in state w; the page last rendered with
\* the current localStream
Commit(w) ==
    LET r == Rendered(w, localStream) IN
    /\ localStream' = r.localStream
    /\ isConnected' = r.isConnected
    /\ peerConnectionRef' = r.peerConnectionRef
    /\ dataChannelRef' = r.dataChannelRef
    /\ peers' = r.peers

\* connect() up to await getUserMedia; from is "session" for the call made by
\* handleStartSession, whose closure holds stream = remoteStream || localStream
Connecting(from) ==
    /\ Len(connects) < MaxConnects
    /\ connects' = Append(connects, [pc |-> "getUserMedia", from |-> from,
                                     stream |-> localStream, call |-> 0])

\* the Start Detection button, shown while isRecording is false
handleStartSession ==
    /\ ~isRecording
    /\ Connecting("session")
    /\ UNCHANGED <<isRecording, localStream, isConnected, webrtcRefs, peers, timers>>
    /\ UNCHANGED <<hookVars, metricsVars, notSessionVars>>

\* the Start Connection button of the connection panel, shown while
\* isConnected is false
onConnect ==
    /\ ~isConnected
    /\ Connecting("panel")
    /\ UNCHANGED <<isRecording, localStream, isConnected, webrtcRefs, peers, timers>>
    /\ UNCHANGED <<hookVars, metricsVars, notSessionVars>>

\* connect() after getUserMedia has resolved with the stream of call i
connect(i) ==
    [localStream |-> i,
     isConnected |-> isConnected,
     peerConnectionRef |-> Len(peers) + 1,
     dataChannelRef |-> Len(peers) + 1,
     peers |-> Append(peers, [state |-> "open", closedBy |-> "none"])]

\* handleStartSession after await startDetection(...)
SessionRecording(i) ==
    /\ isRecording' = TRUE
    /\ BenchmarkStarted
    /\ connects' = [connects EXCEPT ![i].pc = "recording"]

\* getUserMedia resolves for call i: the rest of connect(), then the rest of
\* the handler that awaited it
getUserMedia_resolved(i) ==
    /\ connects[i].pc = "getUserMedia"
    /\ timers' = timers + 1
    /\ Commit(connect(i))
    /\ CASE connects[i].from = "panel" ->
              /\ connects' = [connects EXCEPT ![i].pc = "done"]
              /\ UNCHANGED <<isRecording, hookVars, metricsVars>>
         [] connects[i].from = "session" /\ connects[i].stream = 0 ->
              /\ DetectionStarted("null")
              /\ SessionRecording(i)
         [] OTHER ->
              /\ DetectionStarted("stream")
              /\ connects' = [connects EXCEPT ![i].pc = "awaitMetadata",
                                              ![i].call = Len(calls) + 1]
              /\ UNCHANGED <<isRecording, metricsVars>>
    /\ UNCHANGED notSessionVars

\* getUserMedia rejects for call i: connect() rethrows, handleStartSession
\* logs the error
getUserMedia_rejected(i) ==
    /\ connects[i].pc = "getUserMedia"
    /\ connects' = [connects EXCEPT ![i].pc = "failed"]
    /\ UNCHANGED <<isRecording, localStream, isConnected, webrtcRefs, peers, timers>>
    /\ UNCHANGED <<hookVars, metricsVars, notSessionVars>>

\* the video of the startDetection call awaited by session i fires
\* loadedmetadata: startDetection sets the interval and returns, the
\* handler goes on
session_onloadedmetadata(i) ==
    /\ connects[i].pc = "awaitMetadata"
    /\ MetadataLoaded(connects[i].call)
    /\ SessionRecording(i)
    /\ UNCHANGED <<localStream, isConnected, webrtcRefs, peers, timers>>
    /\ UNCHANGED notSessionVars

\* setTimeout(() => setIsConnected(true), 1000)
connectionTimer ==
    /\ timers > 0
    /\ timers' = timers - 1
    /\ isConnected' = TRUE
    /\ UNCHANGED <<isRecording, localStream, webrtcRefs, peers, connects>>
    /\ UNCHANGED <<hookVars, metricsVars, notSessionVars>>

\* the Stop Detection button, shown while isRecording is true
handleStopSession ==
    /\ isRecording
    /\ DetectionStopped
    /\ Commit(disconnect(WebRTC, localStream, "disconnect"))
    /\ isRecording' = FALSE
    /\ BenchmarkStopped
    /\ UNCHANGED <<timers, connects>>
    /\ UNCHANGED notSessionVars

\* the Disconnect button of the connection panel, shown while isConnected
\* is true
onDisconnect ==
    /\ isConnected
    /\ Commit(disconnect(WebRTC, localStream, "disconnect"))
    /\ UNCHANGED <<isRecording, timers, connects>>
    /\ UNCHANGED <<hookVars, metricsVars, notSessionVars>>

\* the page mounted
SessionStart ==
    /\ isRecording = FALSE
    /\ localStream = 0
    /\ isConnected = FALSE
    /\ peerConnectionRef = 0
    /\ dataChannelRef = 0
    /\ peers = <<>>
    /\ timers = 0
    /\ connects = <<>>

\* the page left unused
SessionIdle == SessionStart

SessionNext ==
    \/ handleStartSession
    \/ onConnect
    \/ \E i \in ConnectIds : getUserMedia_resolved(i)
    \/ \E i \in ConnectIds : getUserMedia_rejected(i)
    \/ \E i \in ConnectIds : session_onloadedmetadata(i)
    \/ connectionTimer
    \/ handleStopSession
    \/ onDisconnect

-----------------------------------------------------------------------------
(* FrameProcessor *)

\* constructor default: maxQueueSize = 3
DefaultMaxQueueSize == 3

\* Array.prototype.shift: removes the first element, a no-op on an empty array
Shift(q) == IF q = <<>> THEN q ELSE Tail(q)

\* getLatestFrame is called by processFrame but defined nowhere in the
\* repository: it is taken to read the newest queued frame without changing
\* the queue (the frame the scheduler selects on a tick).
getLatestFrame(q) == IF q = <<>> THEN <<>> ELSE <<q[Len(q)]>>

\* mutant: the eviction test lets the queue grow one past its capacity
QueueAfterAdmit_NoEvictAtCapacity(q, cap, frame) ==
    Append(IF Len(q) > cap THEN Shift(q) ELSE q, frame)

\* mutant: evicts the newest queued frame instead of the oldest
QueueAfterAdmit_DropNewest(q, cap, frame) ==
    Append(IF Len(q) >= cap /\ q # <<>> THEN SubSeq(q, 1, Len(q) - 1) ELSE q, frame)

\* the queue after processFrame(frame): drop the oldest when full, then push
QueueAfterAdmit(q, cap, frame) ==
    Append(IF Len(q) >= cap THEN Shift(q) ELSE q, frame)

\* FrameProcessor.processFrame(frame)
FrameProcessor_processFrame(payload) ==
    /\ Len(admitted) < MaxAdmitted
    /\ LET frame == [frame_id |-> Len(admitted) + 1, data |-> payload]
           q == QueueAfterAdmit(frameQueue, maxQueueSize, frame)
       IN  /\ frameQueue' = q
           /\ returned' = getLatestFrame(q)
           /\ admitted' = Append(admitted, frame)
    /\ UNCHANGED <<maxQueueSize, notQueueVars>>

\* new FrameProcessor(maxQueueSize): a positive capacity, empty queue
QueueInit ==
    /\ maxQueueSize \in 1..MaxCapacity
    /\ frameQueue = <<>>
    /\ admitted = <<>>
    /\ returned = <<>>

QueueNext == \E payload \in 1..FramePayloads : FrameProcessor_processFrame(payload)

InitQueue == QueueInit /\ LbIdle /\ DecIdle /\ HookIdle /\ MetricsIdle /\ SessionIdle

SpecQueue == InitQueue /\ [][QueueNext]_vars

-----------------------------------------------------------------------------
(* C4: for every sequence of admitted frames the queue length never exceeds
   the capacity K (K >= 1). *)
QueueBound == Len(frameQueue) <= maxQueueSize

\* a full queue has admitted one more frame and stayed at its capacity
QueueBoundWitness ==
    /\ Len(admitted) > maxQueueSize
    /\ Len(frameQueue) = maxQueueSize

(* C5: after admitting n frames into a queue of capacity K, the queue holds
   exactly the last min(n, K) admitted frames in arrival order, so the frame
   just admitted is never the one dropped. *)
DropOldest ==
    frameQueue = LastN(admitted, Min(Len(admitted), maxQueueSize))

\* the scenario K = 3, frames 1,2,3,4 admitted, queue holds 2,3,4
DropOldestWitness ==
    /\ maxQueueSize = DefaultMaxQueueSize
    /\ Len(admitted) = 4
    /\ [i \in 1..Len(frameQueue) |-> frameQueue[i].frame_id] = <<2, 3, 4>>

-----------------------------------------------------------------------------
(* Specification of the letterbox round trip *)

QueueIdle ==
    /\ maxQueueSize = DefaultMaxQueueSize
    /\ frameQueue = <<>>
    /\ admitted = <<>>
    /\ returned = <<>>

InitLetterbox == LbInit /\ QueueIdle /\ DecIdle /\ HookIdle /\ MetricsIdle /\ SessionIdle

SpecLetterbox == InitLetterbox /\ [][LbNext]_vars

\* |a - b| <= tol
Within(a, b, tol) == RatLeq(RatAbs(RatSub(a, b)), tol)

\* the decoded point is within tol of the source point, through either clamp
RoundTripWithin(tolx, toly) ==
    /\ Within(lbDecoded.xmin, lbPoint[1], tolx)
    /\ Within(lbDecoded.xmax, lbPoint[1], tolx)
    /\ Within(lbDecoded.ymin, lbPoint[2], toly)
    /\ Within(lbDecoded.ymax, lbPoint[2], toly)

(* C10 as stated: for any frame size and any normalized point, encoding the
   point into the tensor and decoding it returns the point within 1e-3. *)
RoundTripTolerance == lbPc = "decoded" => RoundTripWithin(Rat(1, 1000), Rat(1, 1000))

(* C10 amended: the decoded point is within half a tensor pixel of the source
   point, that is within 0.5/(width*scale) and 0.5/(height*scale). *)
RoundTripHalfPixel ==
    lbPc = "decoded" =>
        RoundTripWithin(
            RatDiv(Rat(1, 2), RatMul(RatInt(lbFrame[1]), LbParams.scale)),
            RatDiv(Rat(1, 2), RatMul(RatInt(lbFrame[2]), LbParams.scale)))

\* a point off the origin of a frame whose scaled height is not integral
\* made the round trip
RoundTripWitness ==
    /\ lbPc = "decoded"
    /\ lbPoint[1][1] > 0 /\ lbPoint[2][1] > 0
    /\ RatMul(RatInt(lbFrame[2]), LbParams.scale)[2] # 1
    /\ lbDecoded.ymin # lbPoint[2]

\* tensor sizes preprocessImage is evaluated for
TensorSizes == {32, 416, InputSize}

\* the padding of a tensor of size S around an image side of the given extent
PadOf(S, extent) == RatFloor(RatDiv(RatSub(RatInt(S), extent), RatInt(2)))

(* C11 as stated: for every frame and tensor size S, scale = min(S/width,
   S/height), pad_x = floor((S - width*scale)/2) and pad_y = floor((S -
   height*scale)/2). *)
LetterboxParams ==
    lbPc # "idle" =>
        \A S \in TensorSizes :
            LET lb == preprocessImage(lbFrame[1], lbFrame[2], S)
            IN  /\ lb.scale = RatMin(Rat(S, lbFrame[1]), Rat(S, lbFrame[2]))
                /\ lb.dx = PadOf(S, RatMul(RatInt(lbFrame[1]), lb.scale))
                /\ lb.dy = PadOf(S, RatMul(RatInt(lbFrame[2]), lb.scale))

(* C11 amended: scale = min(S/width, S/height), and the padding is taken
   around the rounded image size: pad_x = floor((S - round(width*scale))/2),
   pad_y = floor((S - round(height*scale))/2). *)
LetterboxParamsRounded ==
    lbPc # "idle" =>
        \A S \in TensorSizes :
            LET lb == preprocessImage(lbFrame[1], lbFrame[2], S)
            IN  /\ lb.scale = RatMin(Rat(S, lbFrame[1]), Rat(S, lbFrame[2]))
                /\ lb.dx = PadOf(S, RatInt(RatRound(RatMul(RatInt(lbFrame[1]), lb.scale))))
                /\ lb.dy = PadOf(S, RatInt(RatRound(RatMul(RatInt(lbFrame[2]), lb.scale))))

\* the encoder has run on a frame that leaves padding and whose scaled width
\* is not integral
LetterboxParamsWitness ==
    /\ lbPc = "encoded"
    /\ LbParams.dx > 0
    /\ RatMul(RatInt(lbFrame[1]), LbParams.scale)[2] # 1

-----------------------------------------------------------------------------
(* Specification of the decoder *)

InitDecode == DecInit /\ QueueIdle /\ LbIdle /\ HookIdle /\ MetricsIdle /\ SessionIdle

SpecDecode == InitDecode /\ [][DecNext]_vars

InUnit(r) == RatLeq(RatInt(0), r) /\ RatLeq(r, RatInt(1))

WellFormedBox(d) ==
    /\ InUnit(d.xmin) /\ InUnit(d.ymin) /\ InUnit(d.xmax) /\ InUnit(d.ymax)
    /\ RatLt(d.xmin, d.xmax)
    /\ RatLt(d.ymin, d.ymax)

(* C6: every emitted detection box, from the decoder or from the mock path,
   has its four coordinates in [0,1] with xmin < xmax and ymin < ymax. *)
CoordinateBound ==
    decPc = "done" => \A k \in 1..Len(decDetections) : WellFormedBox(decDetections[k])

\* the IoU of two boxes exceeds the threshold (zero-area pairs have IoU 0)
IouExceeds(a, b, iouThreshold) ==
    LET inter == Inter(a, b)
        union == Area(a) + Area(b) - inter
    IN  union > 0 /\ 100 * inter > iouThreshold * union

(* C7: no two boxes whose indices nms returns have IoU greater than
   iouThreshold with each other. *)
NmsInvariant ==
    (decPc = "nms" /\ nmsOrder = <<>>) =>
        \A p, q \in 1..Len(nmsIndices) :
            nmsIndices[p] # nmsIndices[q] =>
                ~IouExceeds(boxes[nmsIndices[p]], boxes[nmsIndices[q]], IouThreshold)

\* a coordinate clamped into [0,1]
Clamp01(r) == RatMax(RatInt(0), RatMin(RatInt(1), r))

\* a tensor-space coordinate decoded as stated: subtract the pad, divide by
\* the scale, divide by the original extent, clamp into [0,1]
DecodedCoordinate(c, pad, scale, extent) ==
    Clamp01(RatDiv(RatDiv(RatSub(RatInt(c), RatInt(pad)), scale), RatInt(extent)))

\* detection d is the stated decoding of the tensor-space box
DecodesBox(d, box) ==
    LET lb == DecParams
    IN  /\ d.xmin = DecodedCoordinate(box[1], lb.dx, lb.scale, decFrame[1])
        /\ d.ymin = DecodedCoordinate(box[2], lb.dy, lb.scale, decFrame[2])
        /\ d.xmax = DecodedCoordinate(box[3], lb.dx, lb.scale, decFrame[1])
        /\ d.ymax = DecodedCoordinate(box[4], lb.dy, lb.scale, decFrame[2])

\* the scenario: on a 640x480 frame the box (100,100,200,180) decodes to
\* (0.15625, 0.04167, 0.3125, 0.20833), to the five decimals given
DecodeScenario(d, box) ==
    (decFrame = <<640, 480>> /\ box = <<100, 100, 200, 180>>) =>
        /\ Within(d.xmin, Rat(15625, 100000), Rat(1, 100000))
        /\ Within(d.ymin, Rat(4167, 100000), Rat(1, 100000))
        /\ Within(d.xmax, Rat(31250, 100000), Rat(1, 100000))
        /\ Within(d.ymax, Rat(20833, 100000), Rat(1, 100000))

(* C12: decoding a tensor-space box subtracts the pad, divides by the scale
   and by the original size and clamps each coordinate into [0,1]; on a
   640x480 frame the box (100,100,200,180) decodes to (0.15625, 0.04167,
   0.3125, 0.20833). *)
DecodeClamped ==
    (decPc = "done" /\ decBackend = "model") =>
        \A k \in 1..Len(decDetections) :
            /\ DecodesBox(decDetections[k], boxes[nmsIndices[k]])
            /\ DecodeScenario(decDetections[k], boxes[nmsIndices[k]])

\* the scenario of C12 alone
DecodeScenarioHolds ==
    (decPc = "done" /\ decBackend = "model") =>
        \A k \in 1..Len(decDetections) :
            DecodeScenario(decDetections[k], boxes[nmsIndices[k]])

(* C16: a frame whose width or height is zero is rejected at admission: it
   is never handed to preprocessing or the backend and no result is posted
   for it. *)
MalformedFrameRejected ==
    (decFrame[1] = 0 \/ decFrame[2] = 0) => decPc = "start"

\* processOutput has built its candidates from the raw output
CandidatesBuilt ==
    /\ decBackend = "model"
    /\ decPc \in {"nms", "done"}
    /\ ~ImageDataThrows(decFrame[1], decFrame[2])

(* C21: the decoder discards exactly the anchors whose maximum class
   confidence is below 0.25: an anchor whose maximum confidence equals the
   threshold is kept as a candidate. *)
ThresholdKeepsEqual ==
    CandidatesBuilt =>
        Len(boxes) = Cardinality({i \in 1..Len(rawOutput) : rawOutput[i].conf >= 25})

\* nms has returned its indices
NmsReturned == decBackend = "model" /\ decPc = "nms" /\ nmsOrder = <<>>

\* candidate c is among the indices nms returns
Returned(c) == \E p \in 1..Len(nmsIndices) : nmsIndices[p] = c

(* C22: nms is greedy by descending confidence regardless of class: the
   highest-confidence candidate is kept, and a candidate is absent from the
   output if and only if a kept candidate selected before it (one of at least
   its confidence) has IoU with it above 0.45. *)
GreedyNms ==
    (NmsReturned /\ boxes # <<>>) =>
        /\ \A c \in 1..Len(boxes) : scores[nmsIndices[1]] >= scores[c]
        /\ \A c \in 1..Len(boxes) :
               ~Returned(c) <=>
                   \E k \in 1..Len(boxes) :
                       /\ k # c
                       /\ Returned(k)
                       /\ scores[k] >= scores[c]
                       /\ IouExceeds(boxes[k], boxes[c], 45)

(* C23: a zero-area box has IoU 0 against every other box in nms, another
   zero-area box included: the test iou <= iouThreshold passes for it, so it
   neither suppresses another candidate nor is suppressed. *)
ZeroAreaIouZero ==
    (decBackend = "model" /\ decPc = "nms") =>
        \A a, b \in 1..Len(boxes) :
            (a # b /\ (Area(boxes[a]) = 0 \/ Area(boxes[b]) = 0)) =>
                IouLeqThreshold(boxes[a], boxes[b], IouThreshold)

-----------------------------------------------------------------------------
(* Specification of the detection hook with its worker and server *)

Init == HookInit /\ QueueIdle /\ LbIdle /\ DecIdle /\ MetricsIdle /\ SessionIdle

Spec == Init /\ [][HookNext]_vars

\* the frames whose handler attempted a model load in the current worker and
\* logged its failure
LoadFailuresLogged == {k \in FrameIds : frames[k].worker = workerRef /\ frames[k].loadFailed}

(* C17: when the model fails to load the worker falls back to the stub and
   the load failure is logged once: later frame messages do not attempt the
   load (and log its failure) again. *)
LoadFailureLoggedOnce == Cardinality(LoadFailuresLogged) <= 1

\* C1: at most one inference is in flight at any time: no frame is dispatched
\* to the worker or to the server while a previous one has not completed
AtMostOneInFlight == Cardinality(InFlight) <= 1

\* C2: results are published in the order in which their frames were
\* dispatched
PublishedInDispatchOrder ==
    \A i, j \in 1..Len(published) : i < j => published[i].frame < published[j].frame

\* C3: once stopDetection has run, no worker reply or server response changes
\* the published detections: they stay empty until the next start
StoppedStaysEmpty == phase = "Stopped" => detections = <<>>

\* the results published for frame k
PublishedFor(k) == {i \in 1..Len(published) : published[i].frame = k}

\* C8: a frame whose backend failed gets exactly one published result, with an
\* empty detection list
BackendFailurePublishesEmpty ==
    \A k \in FrameIds :
        (frames[k].failed /\ frames[k].pc \in {"delivered", "dropped"}) =>
            /\ Cardinality(PublishedFor(k)) = 1
            /\ \A i \in PublishedFor(k) : published[i].detections = <<>>

\* detection d carries the identifier and the timestamps of frame k
CarriesFrame(d, k) ==
    /\ d.frame_id = Some(frames[k].ts)
    /\ d.capture_ts = Some(frames[k].ts)
    /\ d.recv_ts # Absent
    /\ d.inference_ts # Absent

\* C9: every published result carries the frame_id and capture_ts of the
\* frame it was computed from, together with recv_ts and inference_ts
ResultsCarryFrame ==
    \A i \in 1..Len(published) :
        \A n \in 1..Len(published[i].detections) :
            CarriesFrame(published[i].detections[n], published[i].frame)


-----------------------------------------------------------------------------
(* Specification of the metrics hook *)

InitMetrics == MetricsInit /\ QueueIdle /\ LbIdle /\ DecIdle /\ HookIdle /\ SessionIdle

SpecMetrics == InitMetrics /\ [][MetricsNext]_vars

\* the values of the buffer
Values(buffer) == {buffer[i] : i \in 1..Len(buffer)}

\* v is the element at index (counted from 0) of the buffer sorted ascending:
\* at most index samples are below v and more than index are at most v
IsSortedElement(buffer, index, v) ==
    /\ v \in Values(buffer)
    /\ Cardinality({i \in 1..Len(buffer) : buffer[i] < v}) <= index
    /\ Cardinality({i \in 1..Len(buffer) : buffer[i] <= v}) > index

(* C13: for a latency buffer of size M the reported median is the element at
   index floor(M/2) and the reported p95 the element at index floor(M*0.95)
   of the ascending-sorted buffer, both indices within [0, M-1]; an empty
   buffer reports 0 for both (the samples 10, 20, 30, 40, 50 give median 30
   and p95 50). *)
LatencyStatsReported ==
    /\ LatencyStats(<<10, 20, 30, 40, 50>>) = [median |-> 30, p95 |-> 50]
    /\ latencyFresh =>
        LET M == Len(latencyMeasurements)
        IN  IF M = 0
            THEN metrics.latency = [median |-> 0, p95 |-> 0]
            ELSE /\ (M \div 2) \in 0..(M - 1)
                 /\ ((M * 95) \div 100) \in 0..(M - 1)
                 /\ IsSortedElement(latencyMeasurements, M \div 2, metrics.latency.median)
                 /\ IsSortedElement(latencyMeasurements, (M * 95) \div 100,
                                    metrics.latency.p95)

\* updateMetrics has reported five samples recorded out of order, 50 first:
\* the median is 30 and the p95 is 50
LatencyStatsWitness ==
    /\ latencyFresh
    /\ Values(latencyMeasurements) = {10, 30, 50}
    /\ Len(latencyMeasurements) = 5
    /\ latencyMeasurements[1] = 50
    /\ metrics.latency = [median |-> 30, p95 |-> 50]

(* C14: after any sequence of recordFrameProcessed calls the latency buffer
   holds at most 100 samples, and once it has overflowed it holds exactly the
   100 most recently recorded samples in recording order. *)
RollingBuffer ==
    /\ Len(latencyMeasurements) <= 100
    /\ latencyMeasurements = LastN(samples, Min(Len(samples), 100))

\* more than 100 samples were recorded: the oldest are gone
RollingBufferWitness ==
    /\ Len(samples) > 100
    /\ Len(latencyMeasurements) = 100
    /\ latencyMeasurements[1] # samples[1]

(* C15: framesProcessed (frameCountRef, which updateMetrics reports) equals
   the number of frames that completed decode in the current session, and
   counts nothing else. *)
FramesProcessedCountsDecoded == frameCountRef = decoded

(* C18: frames are dispatched only while Streaming: once stopDetection has
   run, no tick forwards a frame to the worker or to the server until the
   next startDetection. *)
DispatchOnlyWhileStreaming == [][phase = "Stopped" => Len(frames') = Len(frames)]_vars

(* C19: while a session is Streaming (startDetection was called with a
   stream whose metadata has loaded and stopDetection has not been called),
   every tick at which no inference is in flight forwards a frame to the
   backend. *)
TickForwardsFrame ==
    \A c \in CallIds :
        (phase = "Streaming" /\ calls[c].pc = "interval" /\ InFlight = {}) =>
            ProcessFrameBranch(c) \in {"post", "fetch"}

(* C20: each recordFrameProcessed call appends exactly one latency sample to
   the buffer, whatever the latency value (0 included): the number of samples
   ever appended equals the number of calls. *)
OneSamplePerRecord == pushes = recordCalls

(* C24: in a detection worker every received frame message produces exactly
   one posted result on every path, provided the backend call returns or
   throws: no handler that got past the backend call is left without a
   posted reply. *)
OneReplyPerMessage ==
    \A k \in FrameIds :
        (frames[k].via = "wasm" /\ frames[k].pc \in {"replied", "delivered", "hung"}) =>
            frames[k].reply # NoReply

\* the intervals that are set and not cleared
ActiveTimers == {c \in CallIds : calls[c].pc = "interval"}

(* C25: the hook has at most one active tick timer at any time, and none
   after stopDetection. *)
AtMostOneTimer ==
    /\ Cardinality(ActiveTimers) <= 1
    /\ phase = "Stopped" => ActiveTimers = {}

\* the model loads in progress in the current worker
LoadsInProgress ==
    Cardinality({k \in FrameIds : frames[k].worker = workerRef /\ frames[k].pc = "loading"})
        + (IF workerRef # 0 /\ wBoot THEN 1 ELSE 0)

(* C26: in a detection worker at most one model load is ever in progress. *)
AtMostOneLoad == LoadsInProgress <= 1

(* C30: no frame message is posted to a terminated worker: every frame sent
   in wasm mode went to a worker that exists, and the frames a worker still
   holds are held by the current worker. *)
NoPostToTerminatedWorker ==
    \A k \in FrameIds :
        frames[k].via = "wasm" =>
            /\ frames[k].worker \in 1..workersCreated
            /\ frames[k].pc \in {"queued", "loading", "running", "replied", "hung"} =>
                   frames[k].worker = workerRef

\* a frame was posted to the first worker, the worker was terminated by a
\* mode change, and a later tick posted a frame to the second worker
NoPostToTerminatedWorkerWitness ==
    \E j, k \in FrameIds :
        /\ frames[j].worker = 1 /\ frames[j].pc = "lost"
        /\ frames[k].worker = 2 /\ frames[k].pc = "queued"
        /\ workerRef = 2

-----------------------------------------------------------------------------
(* The page with useWebRTC, useObjectDetection and useMetrics: sessions
   started and stopped from the page, connections made from the panel. *)

InitSession == SessionStart /\ QueueIdle /\ LbIdle /\ DecIdle /\ HookIdle /\ MetricsIdle

SpecSession == InitSession /\ [][SessionNext]_vars

\* C27: whenever the page shows a session as recording, detection is
\* processing and its tick timer is set
RecordingMeansProcessing == isRecording => (isProcessing /\ intervalRef # 0)

\* C28: isConnected is true only while the hook holds an open peer connection
ConnectedOnlyWithPeer ==
    isConnected => (peerConnectionRef # 0 /\ peers[peerConnectionRef].state = "open")

\* C29: no peer connection or data channel is closed by the cleanup of the
\* hook's own effect; only a call of disconnect closes one
ClosedOnlyByDisconnect == \A i \in 1..Len(peers) : peers[i].closedBy # "cleanup"

=============================================================================
